---- MODULE Spec2Model ----
(***************************************************************************)
(* Model of pyreolink.PyReolink (src/pyreolink/__init__.py): one camera    *)
(* session object with a stored token, the retrying query() method and the *)
(* per-command wrappers built on it.  The HTTP transport (requests.Session)*)
(* is the environment: each request it is handed is answered by a          *)
(* nondeterministically chosen outcome.                                    *)
(***************************************************************************)
EXTENDS Integers, Sequences, FiniteSets, TLC

(***************************************************************************)
(* Bounds of the model.                                                    *)
(***************************************************************************)
NumTokens == 2        \* distinct token names the device may hand out
MaxPresetId == 1      \* PTZ preset ids 1..MaxPresetId

(***************************************************************************)
(* Python values, tagged with their type.  A dict is its item list in      *)
(* insertion order: a sequence of <<key, value>> pairs with unique keys.   *)
(***************************************************************************)
PyNone == [t |-> "None"]
PyStr(s) == [t |-> "str", v |-> s]
PyInt(n) == [t |-> "int", v |-> n]
PyList(s) == [t |-> "list", v |-> s]
PyDict(items) == [t |-> "dict", v |-> items]

\* isinstance(x, dict)
IsDict(x) == x.t = "dict"

HasKey(d, k) == \E i \in 1..Len(d.v) : d.v[i][1] = k

\* dict.get(k): the value stored under k, None when the key is missing
DictGet(d, k) ==
    IF HasKey(d, k)
    THEN LET i == CHOOSE j \in 1..Len(d.v) : d.v[j][1] = k IN d.v[i][2]
    ELSE PyNone

\* dict.update({k: val}): overwrite in place, or append a new item
DictUpdate(d, k, val) ==
    IF HasKey(d, k)
    THEN PyDict([i \in 1..Len(d.v) |->
                    IF d.v[i][1] = k THEN <<k, val>> ELSE d.v[i]])
    ELSE PyDict(Append(d.v, <<k, val>>))

\* str(x) as urlencode applies it to each value
PyToStr(x) ==
    CASE x.t = "str" -> x.v
      [] x.t = "int" -> ToString(x.v)
      [] x.t = "None" -> "None"
      [] OTHER -> "<object>"

\* urllib.parse.urlencode(dict): the key=value pairs in dict order
urlencode(d) == [i \in 1..Len(d.v) |-> <<d.v[i][1], PyToStr(d.v[i][2])>>]

\* Outcome of an expression: a value, or the exception it raises
Value(x) == [exc |-> "", val |-> x]
Raises(e) == [exc |-> e, val |-> PyNone]

\* x[0]
Subscript0(x) ==
    CASE x.t = "list" -> IF Len(x.v) = 0 THEN Raises("IndexError") ELSE Value(x.v[1])
      [] x.t = "dict" -> Raises("KeyError")     \* JSON object keys are strings
      [] x.t = "str" -> IF x.v = "" THEN Raises("IndexError") ELSE Value(PyStr("?"))
      [] OTHER -> Raises("TypeError")

\* x.get(k): only a dict has the method
AttrGet(x, k) ==
    IF IsDict(x) THEN Value(DictGet(x, k)) ELSE Raises("AttributeError")

\* data.get(k1).get(k2).get(k3)
GetChain(data, k1, k2, k3) ==
    LET a == AttrGet(data, k1) IN
    IF a.exc # "" THEN a
    ELSE LET b == AttrGet(a.val, k2) IN
         IF b.exc # "" THEN b ELSE AttrGet(b.val, k3)

\* isinstance(data, dict) and data.get('code') == 0
CodeIsZero(data) == IsDict(data) /\ DictGet(data, "code") = PyInt(0)

(***************************************************************************)
(* Constructor arguments and command envelopes.                            *)
(***************************************************************************)
base_url == "http://camera"
username == "admin"
Passwords == {"pw1", "pw2"}

retry == 3

headers == PyDict(<< <<"Content-Type", PyStr("application/json")>> >>)

LoginBody(pw) ==
    PyList(<< PyDict(<< <<"action", PyInt(0)>>,
                        <<"cmd", PyStr("Login")>>,
                        <<"param", PyDict(<< <<"User",
                            PyDict(<< <<"userName", PyStr(username)>>,
                                      <<"password", PyStr(pw)>> >>)>> >>)>> >>) >>)

GetIrLightsBody ==
    PyList(<< PyDict(<< <<"action", PyInt(1)>>,
                        <<"cmd", PyStr("GetIrLights")>> >>) >>)

SetIrLightsBody(state) ==
    PyList(<< PyDict(<< <<"action", PyInt(0)>>,
                        <<"cmd", PyStr("SetIrLights")>>,
                        <<"param", PyDict(<< <<"IrLights",
                            PyDict(<< <<"state", state>> >>)>> >>)>> >>) >>)

PtzCtrlBody(preset_id) ==
    PyList(<< PyDict(<< <<"action", PyInt(0)>>,
                        <<"cmd", PyStr("PtzCtrl")>>,
                        <<"param", PyDict(<< <<"channel", PyInt(0)>>,
                                             <<"id", preset_id>>,
                                             <<"op", PyStr("ToPos")>>,
                                             <<"speed", PyInt(32)>> >>)>> >>) >>)

(***************************************************************************)
(* Inputs the caller and the device may supply.                            *)
(***************************************************************************)
TokenNames == {PyStr("tok" \o ToString(i)) : i \in 1..NumTokens}
IrStates == {PyStr("Auto"), PyStr("Off")}
PresetIds == {PyInt(i) : i \in 1..MaxPresetId}

\* query_params a direct caller of query() passes
CallerParams == {PyNone,
                 PyDict(<< <<"cmd", PyStr("GetIrLights")>> >>),
                 PyDict(<< <<"token", PyStr("stale")>> >>)}
CallerMethods == {"GET", "POST", "PUT"}
CallerBodies == {PyNone, GetIrLightsBody}

Result(code, value) == PyDict(<< <<"code", PyInt(code)>>, <<"value", value>> >>)
TokenValue(name) == PyDict(<< <<"Token", PyDict(<< <<"name", name>> >>)>> >>)
IrLightsValue(state) == PyDict(<< <<"IrLights", PyDict(<< <<"state", state>> >>)>> >>)

\* JSON documents the device may answer with
Envelopes ==
    {PyList(<<Result(0, TokenValue(n))>>) : n \in TokenNames}
    \cup {PyList(<<Result(0, IrLightsValue(PyStr("Auto")))>>)}
    \cup {PyList(<<Result(1, IrLightsValue(PyStr("Off")))>>)}  \* failure with a value
    \cup {PyList(<<PyDict(<< <<"code", PyInt(1)>> >>)>>),      \* application failure
          PyList(<<PyDict(<< <<"code", PyInt(0)>> >>)>>),      \* success without value
          PyList(<<Result(0, PyDict(<< <<"Token", PyDict(<<>>)>> >>))>>),
          PyList(<<Result(0, PyDict(<< <<"IrLights", PyDict(<<>>)>> >>))>>),
          PyList(<<PyStr("denied")>>),                         \* first result not an object
          PyList(<<>>),
          PyDict(<< <<"code", PyInt(0)>> >>)}                  \* object instead of array

\* What the transport does with one request: raise, or deliver a response
\* with a status code and a content that is JSON or not.
StatusCodes == {200, 204, 404}
Answers ==
    {[raises |-> TRUE, status_code |-> 0, valid |-> FALSE, json |-> PyNone]}
    \cup {[raises |-> FALSE, status_code |-> s, valid |-> FALSE, json |-> PyNone] :
              s \in StatusCodes}
    \cup {[raises |-> FALSE, status_code |-> 200, valid |-> TRUE, json |-> e] :
              e \in Envelopes}

\* requests.Response.__bool__ is Response.ok: no 4xx or 5xx status
Truthy(response) == response.status_code < 400

Threads == {1, 2}
MainThread == 1

(***************************************************************************)
(* State.                                                                  *)
(***************************************************************************)
VARIABLES
    token,            \* self.__token
    password,         \* self.__password
    constructed,      \* __init__ has returned: the caller holds the object
    login_succeeded,  \* some login() has taken its code == 0 branch to the end
    pc,               \* per thread: "idle", "entry", "loop", "exit", "done"
    frame,            \* per thread: the running call and query()'s locals
    sent,             \* per thread: requests handed to the transport by the call
    answers,          \* per thread: what the transport did with each of them
    stored_at_send,   \* per thread: self.__token at the moment of each request
    log,              \* per thread: records the call gave to _LOGGER
    outcome           \* per thread: how the last call ended

vars == <<token, password, constructed, login_succeeded, pc, frame, sent,
          answers, stored_at_send, log, outcome>>

LogRec(level, msg, args) == [level |-> level, msg |-> msg, args |-> args]

NoUrl == [base |-> "", path |-> "", query |-> <<>>]
NoFrame ==
    [op |-> "", in_init |-> FALSE, arg |-> PyNone, token_at_call |-> PyNone,
     query_params |-> PyNone, method |-> "", body |-> PyNone,
     disable_logging |-> FALSE, parsed_response |-> PyNone, attempt |-> 0,
     url |-> NoUrl]

NoOutcome == [kind |-> "none", exc |-> "", val |-> PyNone]
Returned(x) == [kind |-> "return", exc |-> "", val |-> x]
Raised(e) == [kind |-> "raise", exc |-> e, val |-> PyNone]

Init ==
    /\ token = PyNone
    /\ password \in Passwords
    /\ constructed = FALSE
    /\ login_succeeded = FALSE
    /\ pc = [t \in Threads |-> "idle"]
    /\ frame = [t \in Threads |-> NoFrame]
    /\ sent = [t \in Threads |-> <<>>]
    /\ answers = [t \in Threads |-> <<>>]
    /\ stored_at_send = [t \in Threads |-> <<>>]
    /\ log = [t \in Threads |-> <<>>]
    /\ outcome = [t \in Threads |-> NoOutcome]

(***************************************************************************)
(* query(), lines 163-174: default the parameters, add the stored token,   *)
(* build the URL.  tok is self.__token as read by the call.                *)
(***************************************************************************)
\* slip: a token the caller passed is kept (setdefault instead of update)
QueryParams_SetDefault(tok, query_params) ==
    LET qp == IF query_params = PyNone THEN PyDict(<<>>) ELSE query_params
    IN  IF tok # PyNone /\ ~HasKey(qp, "token")
        THEN DictUpdate(qp, "token", tok) ELSE qp

QueryParams(tok, query_params) ==
    LET qp == IF query_params = PyNone THEN PyDict(<<>>) ELSE query_params
    IN  IF tok # PyNone THEN DictUpdate(qp, "token", tok) ELSE qp

MakeUrl(query_params) ==
    [base |-> base_url, path |-> "/cgi-bin/api.cgi?", query |-> urlencode(query_params)]

QueryFrame(op, in_init, arg, tok, query_params, method, body, disable_logging) ==
    [op |-> op, in_init |-> in_init, arg |-> arg, token_at_call |-> tok,
     query_params |-> QueryParams(tok, query_params),
     method |-> method, body |-> body, disable_logging |-> disable_logging,
     parsed_response |-> PyNone, attempt |-> 1,
     url |-> MakeUrl(QueryParams(tok, query_params))]

\* A thread enters a method of the object and runs it up to position at.
EnterAt(t, f, first_log, at) ==
    /\ frame' = [frame EXCEPT ![t] = f]
    /\ pc' = [pc EXCEPT ![t] = at]
    /\ sent' = [sent EXCEPT ![t] = <<>>]
    /\ answers' = [answers EXCEPT ![t] = <<>>]
    /\ stored_at_send' = [stored_at_send EXCEPT ![t] = <<>>]
    /\ log' = [log EXCEPT ![t] = first_log]
    /\ outcome' = [outcome EXCEPT ![t] = NoOutcome]

\* A thread enters a method of the object and runs it up to query()'s loop.
Enter(t, f, first_log) == EnterAt(t, f, first_log, "loop")

\* slip: login calls query without disable_logging
LoginFrame_Logging(in_init, tok) ==
    QueryFrame("login", in_init, PyNone, tok,
               PyDict(<< <<"cmd", PyStr("Login")>> >>), "POST",
               LoginBody(password), FALSE)

LoginFrame(in_init, tok) ==
    QueryFrame("login", in_init, PyNone, tok,
               PyDict(<< <<"cmd", PyStr("Login")>> >>), "POST",
               LoginBody(password), TRUE)

LoginLog == <<LogRec("DEBUG", "Creating Reolink session", <<>>)>>

CanCall(t) == constructed /\ pc[t] \in {"idle", "done"}

\* PyReolink(base_url, username, password): __init__ up to the first request
Construct(t) ==
    /\ ~constructed
    /\ \A u \in Threads : pc[u] = "idle"
    /\ token' = PyNone
    /\ Enter(t, LoginFrame(TRUE, PyNone), LoginLog)
    /\ UNCHANGED <<password, constructed, login_succeeded>>

\* login() called on the constructed object
CallLogin(t) ==
    /\ CanCall(t)
    /\ Enter(t, LoginFrame(FALSE, token), LoginLog)
    /\ UNCHANGED <<token, password, constructed, login_succeeded>>

CallGetIrLights(t) ==
    /\ CanCall(t)
    /\ Enter(t, QueryFrame("get_ir_lights", FALSE, PyNone, token, PyNone, "POST",
                           GetIrLightsBody, FALSE),
             <<LogRec("DEBUG", "Getting IR lights state", <<>>)>>)
    /\ UNCHANGED <<token, password, constructed, login_succeeded>>

CallSetIrLights(t) ==
    \E state \in IrStates :
        /\ CanCall(t)
        /\ Enter(t, QueryFrame("set_ir_lights", FALSE, state, token, PyNone, "POST",
                               SetIrLightsBody(state), FALSE),
                 <<LogRec("DEBUG", "Setting IR lights state to %s", <<state>>)>>)
        /\ UNCHANGED <<token, password, constructed, login_succeeded>>

CallGotoPtzPreset(t) ==
    \E preset_id \in PresetIds :
        /\ CanCall(t)
        /\ Enter(t, QueryFrame("goto_ptz_preset", FALSE, preset_id, token, PyNone,
                               "POST", PtzCtrlBody(preset_id), FALSE),
                 <<LogRec("DEBUG", "Using PTZ preset with id %s", <<preset_id>>)>>)
        /\ UNCHANGED <<token, password, constructed, login_succeeded>>

\* query() called directly by the host application
CallQuery(t) ==
    \E qp \in CallerParams, m \in CallerMethods, b \in CallerBodies,
       dl \in BOOLEAN :
        /\ CanCall(t)
        /\ Enter(t, QueryFrame("query", FALSE, PyNone, token, qp, m, b, dl), <<>>)
        /\ UNCHANGED <<token, password, constructed, login_succeeded>>

(***************************************************************************)
(* query(), lines 176-193: one iteration of the retry loop.                *)
(***************************************************************************)
\* slip: the loop stops one attempt early
LoopContinues_OffByOne(attempt) == attempt < retry

\* slip: the loop allows one attempt more
LoopContinues_OneMore(attempt) == attempt <= retry + 1

\* while attempt <= retry
LoopContinues(attempt) == attempt <= retry

\* the method has a branch that calls the transport
SendsRequest(method) == method \in {"GET", "POST"}

\* slip: every attempt rebuilds the URL from the token stored at that moment
Request_Fresh(f) ==
    [verb |-> f.method, url |-> MakeUrl(QueryParams(token, f.query_params)),
     headers |-> headers,
     json |-> IF f.method = "GET" THEN [t |-> "unset"] ELSE f.body]

\* slip: a retry rebuilds the URL from the token stored at that moment
Request_FreshOnRetry(f) ==
    [verb |-> f.method,
     url |-> IF f.attempt > 1 THEN MakeUrl(QueryParams(token, f.query_params))
             ELSE f.url,
     headers |-> headers,
     json |-> IF f.method = "GET" THEN [t |-> "unset"] ELSE f.body]

\* session.get(url, headers=headers) / session.post(url, json=body, headers=headers)
Request(f) ==
    IF f.method = "GET"
    THEN [verb |-> "GET", url |-> f.url, headers |-> headers, json |-> [t |-> "unset"]]
    ELSE [verb |-> "POST", url |-> f.url, headers |-> headers, json |-> f.body]

\* slip: the status comparison is inverted
ResponseOk_Inverted(response) == Truthy(response) /\ response.status_code # 200

\* slip: a 200 counts as success only if its first result has code 0
ResponseOk_AppLevel(response) ==
    /\ Truthy(response) /\ response.status_code = 200
    /\ (response.valid =>
           Subscript0(response.json).exc = ""
           /\ CodeIsZero(Subscript0(response.json).val))

\* response and (response.status_code == 200)
ResponseOk(response) == Truthy(response) /\ response.status_code = 200

AttemptLog(f) ==
    IF f.disable_logging THEN <<>>
    ELSE <<LogRec("DEBUG", "Sending request, attempt: %s/%s",
                  <<PyInt(f.attempt), PyInt(retry)>>),
           LogRec("DEBUG", "Body: %s", <<f.body>>)>>

\* The iteration of thread t when the transport does ans with its request
Iteration(t, ans) ==
    LET f == frame[t]
        sends == SendsRequest(f.method)
        f1 == [f EXCEPT !.attempt = @ + 1]
    IN  /\ pc[t] = "loop"
        /\ log' = [log EXCEPT ![t] = @ \o AttemptLog(f)]
        /\ sent' = [sent EXCEPT ![t] = IF sends THEN Append(@, Request(f)) ELSE @]
        /\ answers' = [answers EXCEPT ![t] = IF sends THEN Append(@, ans) ELSE @]
        /\ stored_at_send' = [stored_at_send EXCEPT ![t] =
                                 IF sends THEN Append(@, token) ELSE @]
        /\ IF sends /\ ans.raises
           THEN /\ frame' = [frame EXCEPT ![t] = f1]
                /\ pc' = [pc EXCEPT ![t] = "done"]
                /\ outcome' = [outcome EXCEPT ![t] = Raised("ConnectionError")]
           ELSE IF sends /\ ResponseOk(ans)
           THEN IF ans.valid
                THEN /\ frame' = [frame EXCEPT ![t] =
                                     [f1 EXCEPT !.parsed_response = ans.json]]
                     /\ pc' = [pc EXCEPT ![t] = "exit"]
                     /\ UNCHANGED outcome
                ELSE /\ frame' = [frame EXCEPT ![t] = f1]
                     /\ pc' = [pc EXCEPT ![t] = "done"]
                     /\ outcome' = [outcome EXCEPT ![t] = Raised("ValueError")]
           ELSE /\ frame' = [frame EXCEPT ![t] = f1]
                /\ pc' = [pc EXCEPT ![t] =
                             IF LoopContinues(f1.attempt) THEN "loop" ELSE "exit"]
                /\ UNCHANGED outcome
        /\ UNCHANGED <<token, password, constructed, login_succeeded>>

NoAnswer == [raises |-> FALSE, status_code |-> 0, valid |-> FALSE, json |-> PyNone]

\* method is neither GET nor POST: response stays None
AttemptNoRequest(t) ==
    /\ ~SendsRequest(frame[t].method)
    /\ Iteration(t, NoAnswer)

\* the transport raises (connection error, timeout)
AttemptTransportError(t) ==
    \E ans \in Answers :
        /\ SendsRequest(frame[t].method) /\ ans.raises
        /\ Iteration(t, ans)

\* a response that is not a 200
AttemptNon200(t) ==
    \E ans \in Answers :
        /\ SendsRequest(frame[t].method) /\ ~ans.raises /\ ans.status_code # 200
        /\ Iteration(t, ans)

\* a 200 whose content is JSON
AttemptOk(t) ==
    \E ans \in Answers :
        /\ SendsRequest(frame[t].method) /\ ~ans.raises /\ ans.status_code = 200
        /\ ans.valid
        /\ Iteration(t, ans)

\* a 200 whose content is not JSON: response.json() raises
AttemptBadJson(t) ==
    \E ans \in Answers :
        /\ SendsRequest(frame[t].method) /\ ~ans.raises /\ ans.status_code = 200
        /\ ~ans.valid
        /\ Iteration(t, ans)

(***************************************************************************)
(* query(), lines 195-198, and what each caller does with its result.      *)
(***************************************************************************)
ExitLog(f) ==
    IF f.disable_logging THEN <<>>
    ELSE <<LogRec("DEBUG", "Parsed response: %s", <<f.parsed_response>>)>>

\* slip: the token is read from the wrong field of the payload
LoginResult_WrongField(data, tok) ==
    LET d == Subscript0(data) IN
    IF d.exc # ""
    THEN [outcome |-> Raised(d.exc), token |-> tok, ok |-> FALSE, log |-> <<>>]
    ELSE IF CodeIsZero(d.val)
    THEN LET g == GetChain(d.val, "value", "Token", "token") IN
         IF g.exc # ""
         THEN [outcome |-> Raised(g.exc), token |-> tok, ok |-> FALSE, log |-> <<>>]
         ELSE [outcome |-> Returned(PyNone), token |-> g.val, ok |-> TRUE, log |-> <<>>]
    ELSE [outcome |-> Returned(PyNone), token |-> tok, ok |-> FALSE,
          log |-> <<LogRec("ERROR", "Failed to authenticate", <<>>)>>]

\* login(), lines 71-76, given query()'s return value data and the stored token
LoginResult(data, tok) ==
    LET d == Subscript0(data) IN
    IF d.exc # ""
    THEN [outcome |-> Raised(d.exc), token |-> tok, ok |-> FALSE, log |-> <<>>]
    ELSE IF CodeIsZero(d.val)
    THEN LET g == GetChain(d.val, "value", "Token", "name") IN
         IF g.exc # ""
         THEN [outcome |-> Raised(g.exc), token |-> tok, ok |-> FALSE, log |-> <<>>]
         ELSE [outcome |-> Returned(PyNone), token |-> g.val, ok |-> TRUE, log |-> <<>>]
    ELSE [outcome |-> Returned(PyNone), token |-> tok, ok |-> FALSE,
          log |-> <<LogRec("ERROR", "Failed to authenticate", <<>>)>>]

\* slip: the state is returned without looking at the code
GetIrLightsResult_IgnoresCode(data) ==
    LET d == Subscript0(data) IN
    IF d.exc # ""
    THEN [outcome |-> Raised(d.exc), log |-> <<>>]
    ELSE IF IsDict(d.val)
    THEN LET g == GetChain(d.val, "value", "IrLights", "state") IN
         IF g.exc # ""
         THEN [outcome |-> Raised(g.exc), log |-> <<>>]
         ELSE [outcome |-> Returned(g.val),
               log |-> <<LogRec("INFO", "Successfully got IR lights state: %s",
                                <<g.val>>)>>]
    ELSE [outcome |-> Returned(PyNone),
          log |-> <<LogRec("ERROR", "Failed to get IR lights state", <<>>)>>]

\* get_ir_lights(), lines 89-97
GetIrLightsResult(data) ==
    LET d == Subscript0(data) IN
    IF d.exc # ""
    THEN [outcome |-> Raised(d.exc), log |-> <<>>]
    ELSE IF CodeIsZero(d.val)
    THEN LET g == GetChain(d.val, "value", "IrLights", "state") IN
         IF g.exc # ""
         THEN [outcome |-> Raised(g.exc), log |-> <<>>]
         ELSE [outcome |-> Returned(g.val),
               log |-> <<LogRec("INFO", "Successfully got IR lights state: %s",
                                <<g.val>>)>>]
    ELSE [outcome |-> Returned(PyNone),
          log |-> <<LogRec("ERROR", "Failed to get IR lights state", <<>>)>>]

\* set_ir_lights(), lines 119-124
SetIrLightsResult(data, state) ==
    LET d == Subscript0(data) IN
    IF d.exc # ""
    THEN [outcome |-> Raised(d.exc), log |-> <<>>]
    ELSE IF CodeIsZero(d.val)
    THEN [outcome |-> Returned(PyNone),
          log |-> <<LogRec("INFO", "Successfully set IR lights state to %s",
                           <<state>>)>>]
    ELSE [outcome |-> Returned(PyNone),
          log |-> <<LogRec("ERROR", "Failed to set IR lights state", <<state>>)>>]

\* goto_ptz_preset(), lines 143-148
GotoPtzPresetResult(data, preset_id) ==
    LET d == Subscript0(data) IN
    IF d.exc # ""
    THEN [outcome |-> Raised(d.exc), log |-> <<>>]
    ELSE IF CodeIsZero(d.val)
    THEN [outcome |-> Returned(PyNone),
          log |-> <<LogRec("INFO", "Successfully used PTZ preset with id %s",
                           <<preset_id>>)>>]
    ELSE [outcome |-> Returned(PyNone),
          log |-> <<LogRec("ERROR", "Failed to use PTZ preset with id %s",
                           <<preset_id>>)>>]

\* The call of thread t ends with result r
Finish(t, r) ==
    /\ pc' = [pc EXCEPT ![t] = "done"]
    /\ outcome' = [outcome EXCEPT ![t] = r.outcome]
    /\ log' = [log EXCEPT ![t] = @ \o ExitLog(frame[t]) \o r.log]
    /\ UNCHANGED <<password, frame, sent, answers, stored_at_send>>

\* query() returns to login(), and login() to its caller or to __init__
LoginReturn(t) ==
    /\ pc[t] = "exit" /\ frame[t].op = "login"
    /\ LET r == LoginResult(frame[t].parsed_response, token) IN
        /\ token' = r.token
        /\ login_succeeded' = (login_succeeded \/ r.ok)
        /\ constructed' = (constructed \/
                            (frame[t].in_init /\ r.outcome.kind = "return"))
        /\ Finish(t, r)

\* slip: a failed command drops the stored token
GetIrLightsReturn_ClearsToken(t) ==
    /\ pc[t] = "exit" /\ frame[t].op = "get_ir_lights"
    /\ Finish(t, GetIrLightsResult(frame[t].parsed_response))
    /\ token' = IF GetIrLightsResult(frame[t].parsed_response).outcome
                     = Returned(PyNone)
                THEN PyNone ELSE token
    /\ UNCHANGED <<constructed, login_succeeded>>

GetIrLightsReturn(t) ==
    /\ pc[t] = "exit" /\ frame[t].op = "get_ir_lights"
    /\ Finish(t, GetIrLightsResult(frame[t].parsed_response))
    /\ UNCHANGED <<token, constructed, login_succeeded>>

SetIrLightsReturn(t) ==
    /\ pc[t] = "exit" /\ frame[t].op = "set_ir_lights"
    /\ Finish(t, SetIrLightsResult(frame[t].parsed_response, frame[t].arg))
    /\ UNCHANGED <<token, constructed, login_succeeded>>

GotoPtzPresetReturn(t) ==
    /\ pc[t] = "exit" /\ frame[t].op = "goto_ptz_preset"
    /\ Finish(t, GotoPtzPresetResult(frame[t].parsed_response, frame[t].arg))
    /\ UNCHANGED <<token, constructed, login_succeeded>>

\* query() returns to the host application
QueryReturn(t) ==
    /\ pc[t] = "exit" /\ frame[t].op = "query"
    /\ Finish(t, [outcome |-> Returned(frame[t].parsed_response), log |-> <<>>])
    /\ UNCHANGED <<token, constructed, login_succeeded>>

(***************************************************************************)
(* Specification: one caller at a time uses the object.                    *)
(***************************************************************************)
Next ==
    \/ Construct(MainThread)
    \/ CallLogin(MainThread)
    \/ CallGetIrLights(MainThread)
    \/ CallSetIrLights(MainThread)
    \/ CallGotoPtzPreset(MainThread)
    \/ CallQuery(MainThread)
    \/ AttemptNoRequest(MainThread)
    \/ AttemptTransportError(MainThread)
    \/ AttemptNon200(MainThread)
    \/ AttemptOk(MainThread)
    \/ AttemptBadJson(MainThread)
    \/ LoginReturn(MainThread)
    \/ GetIrLightsReturn(MainThread)
    \/ SetIrLightsReturn(MainThread)
    \/ GotoPtzPresetReturn(MainThread)
    \/ QueryReturn(MainThread)

Spec == Init /\ [][Next]_vars

\* The steps of a call of thread t that is under way
Run(t) ==
    \/ AttemptNoRequest(t) \/ AttemptTransportError(t) \/ AttemptNon200(t)
    \/ AttemptOk(t) \/ AttemptBadJson(t)
    \/ LoginReturn(t) \/ GetIrLightsReturn(t) \/ SetIrLightsReturn(t)
    \/ GotoPtzPresetReturn(t) \/ QueryReturn(t)

\* The calling thread keeps running and every transport call comes back
LiveSpec == Init /\ [][Next]_vars /\ WF_vars(Run(MainThread))

(***************************************************************************)
(* Specification: two threads share the object without synchronization.    *)
(* After the construction, thread 1 calls query() while thread 2 calls     *)
(* login().  query() reads self.__token twice, at line 170 and at line     *)
(* 171, and a login may store a token between the two reads and between    *)
(* any two attempts.                                                       *)
(***************************************************************************)
LoginThread == 2

\* what the device answers in the concurrent runs
ConcAnswers ==
    {a \in Answers :
        \/ ~a.raises /\ a.status_code = 404
        \/ a.valid /\ \E n \in TokenNames :
              a.json = PyList(<<Result(0, TokenValue(n))>>)
        \/ a.valid /\ a.json = PyList(<<Result(0, PyDict(<< <<"Token", PyDict(<<>>)>> >>))>>)}

\* query(), lines 163-170: the parameters are defaulted and self.__token is
\* read for the test "is not None"
QueryStart(t) ==
    \E qp \in CallerParams :
        /\ CanCall(t)
        /\ EnterAt(t, QueryFrame("query", FALSE, PyNone, token, qp, "POST",
                                 GetIrLightsBody, TRUE), <<>>, "entry")
        /\ UNCHANGED <<token, password, constructed, login_succeeded>>

\* query(), lines 171-174: if the test passed, self.__token is read again for
\* the update, and the URL is built
QueryUpdate(t) ==
    /\ pc[t] = "entry"
    /\ LET f == frame[t]
           tested == f.token_at_call # PyNone
           qp == IF tested THEN DictUpdate(f.query_params, "token", token)
                 ELSE f.query_params
       IN  frame' = [frame EXCEPT ![t] =
                        [f EXCEPT !.token_at_call = IF tested THEN token ELSE PyNone,
                                  !.query_params = qp,
                                  !.url = MakeUrl(qp)]]
    /\ pc' = [pc EXCEPT ![t] = "loop"]
    /\ UNCHANGED <<token, password, constructed, login_succeeded, sent, answers,
                   stored_at_send, log, outcome>>

\* one iteration of the loop of thread t
ConcAttempt(t) ==
    \E ans \in ConcAnswers :
        /\ SendsRequest(frame[t].method)
        /\ Iteration(t, ans)

ConcNext ==
    \/ Construct(MainThread)
    \/ QueryStart(MainThread)
    \/ QueryUpdate(MainThread)
    \/ QueryReturn(MainThread)
    \/ CallLogin(LoginThread)
    \/ \E t \in Threads : ConcAttempt(t)
    \/ \E t \in Threads : LoginReturn(t)

ConcSpec == Init /\ [][ConcNext]_vars

TypeOK ==
    /\ token \in {PyNone} \cup TokenNames
    /\ \A t \in Threads : pc[t] \in {"idle", "entry", "loop", "exit", "done"}

(***************************************************************************)
(* Vocabulary of the properties.                                           *)
(***************************************************************************)
\* values the query string of url carries under key k
UrlParam(url, k) == {url.query[i][2] : i \in {j \in 1..Len(url.query) : url.query[j][1] = k}}

Is200(a) == ~a.raises /\ a.status_code = 200
IsNon200(a) == ~a.raises /\ a.status_code # 200
AllNon200(as) == \A i \in 1..Len(as) : IsNon200(as[i])
Last(as) == as[Len(as)]

\* the loop of the call of thread t has ended
LoopEnded(t) == pc[t] \in {"exit", "done"}

FirstResult(e) == e.v[1]
HasFirstResult(e) == e.t = "list" /\ Len(e.v) >= 1 /\ IsDict(e.v[1])
FirstCodeNonzero(e) ==
    /\ HasFirstResult(e)
    /\ HasKey(FirstResult(e), "code")
    /\ DictGet(FirstResult(e), "code") # PyInt(0)
FirstCodeZero(e) ==
    /\ HasFirstResult(e)
    /\ HasKey(FirstResult(e), "code")
    /\ DictGet(FirstResult(e), "code") = PyInt(0)
\* e carries value.<field>.<leaf> in its first result
HasNested(e, field, leaf) ==
    /\ HasFirstResult(e)
    /\ HasKey(FirstResult(e), "value")
    /\ IsDict(DictGet(FirstResult(e), "value"))
    /\ HasKey(DictGet(FirstResult(e), "value"), field)
    /\ IsDict(DictGet(DictGet(FirstResult(e), "value"), field))
    /\ HasKey(DictGet(DictGet(FirstResult(e), "value"), field), leaf)
Nested(e, field, leaf) ==
    DictGet(DictGet(DictGet(FirstResult(e), "value"), field), leaf)

Wrappers == {"get_ir_lights", "set_ir_lights", "goto_ptz_preset"}

(***************************************************************************)
(* C1.  Construction with a failing login.                                 *)
(***************************************************************************)
\* the login of the construction run by thread t failed in one of the four ways
ConstructionLoginFailed(t) ==
    /\ pc[t] = "done" /\ frame[t].in_init /\ Len(answers[t]) >= 1
    /\ \/ Is200(Last(answers[t])) /\ Last(answers[t]).valid
          /\ FirstCodeNonzero(Last(answers[t]).json)
       \/ Len(answers[t]) = retry /\ AllNon200(answers[t])
       \/ Last(answers[t]).raises
       \/ Is200(Last(answers[t])) /\ Last(answers[t]).valid
          /\ FirstCodeZero(Last(answers[t]).json)
          /\ ~HasNested(Last(answers[t]).json, "Token", "name")

\* C1: whenever the login made during construction fails (nonzero code, three
\* non-200 answers, a transport error, or a code-0 payload without the token
\* field), construction ends by returning, not raising, and the token is absent.
C1_ConstructionNeverRaises ==
    \A t \in Threads :
        ConstructionLoginFailed(t) =>
            outcome[t].kind = "return" /\ token = PyNone

(***************************************************************************)
(* C2.  Success on the Nth attempt.                                        *)
(***************************************************************************)
\* C2: if the transport answered non-200 to attempts 1..N-1 and 200 (with a
\* JSON content) to attempt N, the call made exactly N requests, all with the
\* same URL and body, made no further attempt, and query's result is the parsed
\* content of the Nth response.
C2_SucceedsOnNthAttempt ==
    \A t \in Threads : \A n \in 1..Len(answers[t]) :
        ( /\ \A i \in 1..(n - 1) : IsNon200(answers[t][i])
          /\ Is200(answers[t][n]) /\ answers[t][n].valid )
        => /\ LoopEnded(t)
           /\ Len(sent[t]) = n
           /\ frame[t].attempt = n + 1
           /\ n <= retry
           /\ \A i \in 1..Len(sent[t]) :
                 /\ sent[t][i].url = sent[t][1].url
                 /\ sent[t][i].json = sent[t][1].json
           /\ frame[t].parsed_response = answers[t][n].json
           /\ (pc[t] = "done" /\ frame[t].op = "query"
                 => outcome[t] = Returned(answers[t][n].json))

C2_Witness ==
    \E t \in Threads :
        /\ pc[t] = "done" /\ frame[t].op = "query"
        /\ Len(answers[t]) = 3 /\ Len(sent[t]) = 3
        /\ IsNon200(answers[t][1]) /\ IsNon200(answers[t][2])
        /\ Is200(answers[t][3]) /\ answers[t][3].valid
        /\ outcome[t] = Returned(answers[t][3].json)

(***************************************************************************)
(* C3.  Exhaustion by non-200 answers.                                     *)
(***************************************************************************)
\* C3: when the loop of a call has ended and every attempt was answered with a
\* non-200 status, exactly 3 requests were made and query's result is None,
\* returned and not raised.
C3_ExhaustionReturnsNone ==
    \A t \in Threads :
        (LoopEnded(t) /\ Len(answers[t]) >= 1 /\ AllNon200(answers[t]))
        => /\ Len(sent[t]) = 3
           /\ frame[t].parsed_response = PyNone
           /\ (pc[t] = "done" /\ frame[t].op = "query"
                 => outcome[t] = Returned(PyNone))

C3_Witness ==
    \E t \in Threads :
        /\ pc[t] = "done" /\ frame[t].op = "query"
        /\ Len(answers[t]) = 3 /\ AllNon200(answers[t])
        /\ outcome[t] = Returned(PyNone)

(***************************************************************************)
(* C4.  Transport errors.                                                  *)
(***************************************************************************)
\* C4: when the transport raises on an attempt, query does not raise: the call
\* goes on to its next attempt or, after the third, ends with None.
C4_TransportErrorNotPropagated ==
    \A t \in Threads :
        (Len(answers[t]) >= 1 /\ Last(answers[t]).raises)
        => outcome[t].kind # "raise"

(***************************************************************************)
(* C5.  Token inclusion.                                                   *)
(***************************************************************************)
\* C5: every request sent by a call that started while the stored token was t
\* carries token=t in its query string, and while no login has succeeded every
\* request sent by a command the library issues itself carries no token.
C5_TokenInclusion ==
    \A t \in Threads : \A i \in 1..Len(sent[t]) :
        /\ frame[t].token_at_call # PyNone
             => UrlParam(sent[t][i].url, "token") = {frame[t].token_at_call.v}
        /\ (~login_succeeded /\ frame[t].op # "query")
             => UrlParam(sent[t][i].url, "token") = {}

C5_Witness ==
    \E t \in Threads :
        /\ frame[t].op = "query" /\ frame[t].token_at_call \in TokenNames
        /\ Len(sent[t]) = 3
        /\ Len(frame[t].query_params.v) = 1
        /\ UrlParam(sent[t][3].url, "token") = {frame[t].token_at_call.v}

(***************************************************************************)
(* C6.  Wrappers on exhaustion.                                            *)
(***************************************************************************)
\* C6: when a per-command wrapper has run and its query got three non-200
\* answers, the wrapper returns None to its caller and does not raise.
C6_WrapperReturnsNoneOnExhaustion ==
    \A t \in Threads :
        ( /\ pc[t] = "done" /\ frame[t].op \in Wrappers
          /\ Len(answers[t]) = retry /\ AllNon200(answers[t]) )
        => outcome[t] = Returned(PyNone)

(***************************************************************************)
(* C7.  No retry on an application failure.                                *)
(***************************************************************************)
\* C7: when the first attempt is answered by a 200 whose first result has a
\* nonzero code, the call has made exactly one request, makes no further
\* attempt, and query's result is that envelope, unchanged.
C7_NoRetryOnApplicationFailure ==
    \A t \in Threads :
        ( /\ Len(answers[t]) >= 1
          /\ Is200(answers[t][1]) /\ answers[t][1].valid
          /\ FirstCodeNonzero(answers[t][1].json) )
        => /\ LoopEnded(t)
           /\ Len(sent[t]) = 1
           /\ frame[t].parsed_response = answers[t][1].json
           /\ (pc[t] = "done" /\ frame[t].op = "query"
                 => outcome[t] = Returned(answers[t][1].json))

C7_Witness ==
    \E t \in Threads :
        /\ pc[t] = "done" /\ frame[t].op = "query"
        /\ Len(sent[t]) = 1
        /\ Is200(answers[t][1]) /\ answers[t][1].valid
        /\ FirstCodeNonzero(answers[t][1].json)
        /\ outcome[t] = Returned(answers[t][1].json)

(***************************************************************************)
(* C8.  The token stored by construction.                                  *)
(***************************************************************************)
\* C8: when the login of the construction got a 200 whose first result has
\* code 0 and value.Token.name = n, on whichever attempt, then after
\* construction the stored token is n.
C8_ConstructionStoresToken ==
    \A t \in Threads :
        ( /\ pc[t] = "done" /\ frame[t].in_init /\ Len(answers[t]) >= 1
          /\ Is200(Last(answers[t])) /\ Last(answers[t]).valid
          /\ FirstCodeZero(Last(answers[t]).json)
          /\ HasNested(Last(answers[t]).json, "Token", "name") )
        => /\ token = Nested(Last(answers[t]).json, "Token", "name")
           /\ constructed
           /\ outcome[t].kind = "return"

C8_Witness ==
    \E t \in Threads :
        /\ pc[t] = "done" /\ frame[t].in_init /\ Len(answers[t]) = 3
        /\ Is200(answers[t][3]) /\ answers[t][3].valid
        /\ FirstCodeZero(answers[t][3].json)
        /\ HasNested(answers[t][3].json, "Token", "name")
        /\ token \in TokenNames
        /\ token = Nested(answers[t][3].json, "Token", "name")

(***************************************************************************)
(* C9.  Login requests of a construction.                                  *)
(***************************************************************************)
IsLoginRequest(r) ==
    /\ r.verb = "POST"
    /\ r.json = LoginBody(password)
    /\ UrlParam(r.url, "cmd") = {"Login"}

\* C9 as stated: a finished construction has sent exactly one login request.
C9_ExactlyOneLoginRequest ==
    \A t \in Threads :
        (pc[t] = "done" /\ frame[t].in_init) => Len(sent[t]) = 1

\* C9 as amended: a finished construction has made one login call, which sent
\* between 1 and 3 login requests: one per attempt, each after a non-200
\* answer to the one before, and exactly one if the first attempt was answered
\* by a 200 or by a transport error.
C9_OneLoginCallUpToThreeRequests ==
    \A t \in Threads :
        frame[t].in_init =>
            /\ frame[t].op = "login"
            /\ Len(sent[t]) <= retry
            /\ pc[t] = "done" => Len(sent[t]) >= 1
            /\ \A i \in 1..Len(sent[t]) : IsLoginRequest(sent[t][i])
            /\ \A i \in 1..(Len(sent[t]) - 1) : IsNon200(answers[t][i])
            /\ (pc[t] = "done" /\ ~IsNon200(answers[t][1])) => Len(sent[t]) = 1

C9_Witness ==
    \E t \in Threads :
        /\ pc[t] = "done" /\ frame[t].in_init /\ Len(sent[t]) = 3
        /\ \A i \in 1..3 : IsLoginRequest(sent[t][i])

(***************************************************************************)
(* C10.  Only login changes the token.                                     *)
(***************************************************************************)
\* C10: every step that changes the stored token is the end of a login call
\* whose response has code 0 in its first result, and the new token is the one
\* that response names: query, get_ir_lights, set_ir_lights and
\* goto_ptz_preset never change it, and a later login replaces the old token.
C10_OnlyLoginChangesToken ==
    [][ token' # token =>
          \E t \in Threads :
              /\ frame[t].op = "login"
              /\ pc[t] = "exit" /\ pc'[t] = "done"
              /\ FirstCodeZero(frame[t].parsed_response)
              /\ HasNested(frame[t].parsed_response, "Token", "name")
                   => token' = Nested(frame[t].parsed_response, "Token", "name")
              /\ ~HasNested(frame[t].parsed_response, "Token", "name")
                   => token' = PyNone ]_vars

C10_Witness ==
    \E t \in Threads :
        /\ pc[t] = "done" /\ frame[t].op = "login" /\ ~frame[t].in_init
        /\ frame[t].token_at_call \in TokenNames
        /\ token \in TokenNames
        /\ token # frame[t].token_at_call
        /\ token = Nested(frame[t].parsed_response, "Token", "name")

(***************************************************************************)
(* C11.  The token after a failed login.                                   *)
(***************************************************************************)
\* the login call of thread t got a 200 whose first result has code 0
LoginGotCodeZero(t) ==
    /\ Len(answers[t]) >= 1
    /\ Is200(Last(answers[t])) /\ Last(answers[t]).valid
    /\ FirstCodeZero(Last(answers[t]).json)

\* C11: after a login call that did not get a first result with code 0, the
\* stored token is unset, whether or not the object held a token before.
C11_FailedLoginLeavesTokenUnset ==
    \A t \in Threads :
        (pc[t] = "done" /\ frame[t].op = "login" /\ ~LoginGotCodeZero(t))
        => token = PyNone

(***************************************************************************)
(* C12.  The value get_ir_lights returns.                                  *)
(***************************************************************************)
\* C12: a finished get_ir_lights whose response has code 0 in its first result
\* (with value.IrLights.state present) returned that state; one whose first
\* result has a nonzero code returned None, also when that result carries a
\* state.
C12_GetIrLightsValue ==
    \A t \in Threads :
        ( /\ pc[t] = "done" /\ frame[t].op = "get_ir_lights"
          /\ Len(answers[t]) >= 1
          /\ Is200(Last(answers[t])) /\ Last(answers[t]).valid )
        => /\ ( FirstCodeZero(Last(answers[t]).json)
                /\ HasNested(Last(answers[t]).json, "IrLights", "state") )
              => outcome[t] =
                   Returned(Nested(Last(answers[t]).json, "IrLights", "state"))
           /\ FirstCodeNonzero(Last(answers[t]).json)
              => outcome[t] = Returned(PyNone)

C12_Witness ==
    \E t \in Threads :
        /\ pc[t] = "done" /\ frame[t].op = "get_ir_lights"
        /\ Is200(Last(answers[t])) /\ Last(answers[t]).valid
        /\ FirstCodeZero(Last(answers[t]).json)
        /\ HasNested(Last(answers[t]).json, "IrLights", "state")
        /\ outcome[t] = Returned(PyStr("Auto"))

(***************************************************************************)
(* C15.  Malformed success payloads.                                       *)
(***************************************************************************)
\* e is a success payload without value.<field>.<leaf>, or has no first result
Malformed(e, field, leaf) ==
    \/ FirstCodeZero(e) /\ ~HasNested(e, field, leaf)
    \/ e.t # "list"
    \/ e.t = "list" /\ Len(e.v) = 0

\* C15: a login or get_ir_lights call whose 200 response is malformed ends by
\* returning an absent result, not by raising.
C15_MalformedPayloadIsRecoverable ==
    \A t \in Threads :
        ( /\ pc[t] = "done" /\ Len(answers[t]) >= 1
          /\ Is200(Last(answers[t])) /\ Last(answers[t]).valid
          /\ \/ frame[t].op = "login"
                /\ Malformed(Last(answers[t]).json, "Token", "name")
             \/ frame[t].op = "get_ir_lights"
                /\ Malformed(Last(answers[t]).json, "IrLights", "state") )
        => outcome[t] = Returned(PyNone)

(***************************************************************************)
(* C16.  The request body.                                                 *)
(***************************************************************************)
\* C16: every request of a GET or POST query call that was given an envelope
\* as body carries that envelope as its JSON body.
C16_RequestCarriesEnvelope ==
    \A t \in Threads : \A i \in 1..Len(sent[t]) :
        (frame[t].method \in {"GET", "POST"} /\ frame[t].body # PyNone)
        => sent[t][i].json = frame[t].body

(***************************************************************************)
(* C17.  What login logs.                                                  *)
(***************************************************************************)
\* C17: the records a login call gives to the log carry no argument (no body,
\* no response) at any point of the call: the log is the fixed opening record,
\* followed by the fixed failure record exactly when the call returned without
\* a code-0 first result.  It is the same for every password and every token.
C17_LoginLogHidesSecrets ==
    \A t \in Threads :
        frame[t].op = "login" =>
            /\ \A i \in 1..Len(log[t]) : log[t][i].args = <<>>
            /\ log[t] =
                 <<LogRec("DEBUG", "Creating Reolink session", <<>>)>>
                 \o (IF pc[t] = "done" /\ outcome[t].kind = "return"
                        /\ ~LoginGotCodeZero(t)
                     THEN <<LogRec("ERROR", "Failed to authenticate", <<>>)>>
                     ELSE <<>>)

C17_Witness ==
    \E t \in Threads :
        /\ pc[t] = "done" /\ frame[t].op = "login"
        /\ Len(sent[t]) = 3 /\ LoginGotCodeZero(t)
        /\ token \in TokenNames
        /\ log[t] = <<LogRec("DEBUG", "Creating Reolink session", <<>>)>>

(***************************************************************************)
(* C13.  Termination of query.                                             *)
(***************************************************************************)
\* the bounds a call of thread t keeps on its attempts
AttemptsBounded(t) ==
    /\ Len(sent[t]) <= retry
    /\ pc[t] = "loop" =>
          /\ frame[t].attempt <= retry
          /\ \A i \in 1..Len(answers[t]) : IsNon200(answers[t][i])
    /\ (LoopEnded(t) /\ \A i \in 1..Len(answers[t]) : ~answers[t][i].raises) =>
          \/ /\ Len(answers[t]) >= 1 /\ Is200(Last(answers[t]))
             /\ \A i \in 1..(Len(answers[t]) - 1) : IsNon200(answers[t][i])
          \/ frame[t].attempt = retry + 1

\* C13: a call never makes more than 3 transport requests, its loop has ended
\* only right after the first 200 or after the third attempt, and no call stays
\* under way forever: again and again no thread is inside a call.
C13_QueryTerminates ==
    /\ [](\A t \in Threads : AttemptsBounded(t))
    /\ []<>(\A t \in Threads : pc[t] \notin {"loop", "exit"})

C13_Witness ==
    \E t \in Threads :
        /\ pc[t] = "exit" /\ frame[t].op = "query"
        /\ frame[t].attempt = retry + 1 /\ Len(sent[t]) = 3
        /\ AllNon200(answers[t])

(***************************************************************************)
(* C14.  The unsynchronized token.                                         *)
(***************************************************************************)
\* the token parameter a request would carry for stored token tok
TokenParam(tok) == IF tok = PyNone THEN {} ELSE {tok.v}

\* C14: with login and query running concurrently, every request transmitted
\* after the stored token moved away from the token the call read carries a
\* token parameter that differs from the token stored at that moment; the
\* witness is such a transmission.
C14_StaleTokenTransmitted ==
    \A t \in Threads : \A i \in 1..Len(sent[t]) :
        stored_at_send[t][i] # frame[t].token_at_call
        => UrlParam(sent[t][i].url, "token") # TokenParam(stored_at_send[t][i])

C14_Witness ==
    \E i \in 1..Len(sent[MainThread]) :
        /\ frame[MainThread].op = "query" /\ frame[LoginThread].op = "login"
        /\ frame[MainThread].token_at_call \in TokenNames
        /\ stored_at_send[MainThread][i] \in TokenNames
        /\ stored_at_send[MainThread][i] = token
        /\ UrlParam(sent[MainThread][i].url, "token")
             = {frame[MainThread].token_at_call.v}
        /\ UrlParam(sent[MainThread][i].url, "token")
             # TokenParam(stored_at_send[MainThread][i])

(***************************************************************************)
(* C18.  The URL is fixed before the loop.                                 *)
(***************************************************************************)
\* C18: all attempts of a call send the URL of its first attempt, with the
\* token the call read before the loop, also when a login stored another
\* token between two attempts.
C18_TokenFixedBeforeLoop ==
    \A t \in Threads : \A i \in 1..Len(sent[t]) :
        /\ sent[t][i].url = sent[t][1].url
        /\ frame[t].token_at_call # PyNone
             => UrlParam(sent[t][i].url, "token") = {frame[t].token_at_call.v}

C18_Witness ==
    \E t \in Threads :
        /\ frame[t].op = "query" /\ Len(sent[t]) = 3
        /\ frame[t].token_at_call \in TokenNames
        /\ stored_at_send[t][1] = frame[t].token_at_call
        /\ stored_at_send[t][2] # stored_at_send[t][1]
        /\ stored_at_send[t][3] # stored_at_send[t][2]
        /\ UrlParam(sent[t][3].url, "token") = {frame[t].token_at_call.v}
====
